---------------------------- MODULE Spec2Model ----------------------------
(***************************************************************************)
(* The Better Auth type generation script (the second half of              *)
(* src/src/plugin/index.ts, lines 427-695): getSchema is called once with  *)
(* no plugin and once per distinct plugin id, diff() finds the fields each *)
(* plugin adds, generate() emits the TypeScript declarations and the       *)
(* result is written to generated-types.ts.                                *)
(*                                                                         *)
(* A string is a sequence of one-character strings, so that pascal() and   *)
(* JSON.stringify() are computed character by character.  The generated    *)
(* text is a sequence of lines; a line is a sequence of tokens, a token    *)
(* being a character of a name or a piece of fixed syntax.                 *)
(*                                                                         *)
(* A JavaScript object is a sequence of entries [k, v] with distinct keys, *)
(* in property order.  Entity names, field keys and plugin ids range over  *)
(* identifier-like names: none is an array-index string ("0", "1", ...)    *)
(* and none names a member of Object.prototype ("constructor", ...), so    *)
(* property order is insertion order and `k in obj` is own-key membership. *)
(*                                                                         *)
(* Three utilities of the plugin are modelled next to the script, each     *)
(* with its own variables and its own specification: the access function   *)
(* of canUpdateOwnFields (src/src/utils/access.ts), the create.before hook *)
(* of firstUserAdminHooks (src/src/utils/firstUserAdmin.ts) under          *)
(* concurrent sign-ups, and detectAuthConfig (src/unnamed/part_009).  A    *)
(* specification runs one part; the variables of the others stay idle.     *)
(***************************************************************************)
EXTENDS Integers, Sequences, FiniteSets, TLC

\* ----------------------------------------------------------------- values

\* JavaScript's undefined: an id, a fieldName or a required flag not given.
Undefined == <<"undefined">>

\* The truthiness of an id in `!id`: undefined and '' are falsy.
Truthy(x) == x # Undefined /\ x # <<>>

\* The truthiness of `f.required` ("true", "false" or "undefined").
Required(f) == f.required = "true"

\* `a ?? b`.
Nullish(a, b) == IF a = Undefined THEN b ELSE a

\* ---------------------------------------------------------------- objects

ObjKeys(o) == [n \in 1..Len(o) |-> o[n].k]

ObjHas(o, k) == \E n \in 1..Len(o) : o[n].k = k

\* `o[k] ?? dflt` (also `o[k]?.fields ?? dflt`: a schema entry's value is its fields).
ObjGet(o, k, dflt) ==
    IF ObjHas(o, k) THEN o[CHOOSE n \in 1..Len(o) : o[n].k = k].v ELSE dflt

\* `o[k] = v`: an existing key keeps its place, a new key goes last.
ObjSet(o, k, v) ==
    IF ObjHas(o, k)
    THEN [n \in 1..Len(o) |-> IF o[n].k = k THEN [k |-> k, v |-> v] ELSE o[n]]
    ELSE Append(o, [k |-> k, v |-> v])

RECURSIVE ObjFromEntries(_)
ObjFromEntries(es) ==
    IF es = <<>> THEN <<>>
    ELSE ObjSet(ObjFromEntries(SubSeq(es, 1, Len(es) - 1)),
                es[Len(es)].k, es[Len(es)].v)

\* `new Set(seq)` / `[...a, ...b]` into a Set: first occurrences, in order.
RECURSIVE SetOf(_)
SetOf(s) ==
    IF s = <<>> THEN <<>>
    ELSE LET init == SetOf(SubSeq(s, 1, Len(s) - 1))
             last == s[Len(s)]
         IN  IF \E n \in 1..Len(init) : init[n] = last THEN init
             ELSE Append(init, last)

SetHas(s, x) == \E n \in 1..Len(s) : s[n] = x

\* ----------------------------------------------------------- text helpers

RECURSIVE Flatten(_)
Flatten(ss) == IF ss = <<>> THEN <<>> ELSE Head(ss) \o Flatten(Tail(ss))

\* Array.prototype.join.
RECURSIVE Join(_, _)
Join(parts, sep) ==
    IF parts = <<>> THEN <<>>
    ELSE IF Len(parts) = 1 THEN parts[1]
    ELSE parts[1] \o sep \o Join(Tail(parts), sep)

\* String.prototype.toUpperCase on one character.
ToUpperCase(c) ==
    CASE c = "a" -> "A" [] c = "b" -> "B" [] c = "c" -> "C" [] c = "d" -> "D"
      [] c = "e" -> "E" [] c = "f" -> "F" [] c = "g" -> "G" [] c = "h" -> "H"
      [] c = "i" -> "I" [] c = "j" -> "J" [] c = "k" -> "K" [] c = "l" -> "L"
      [] c = "m" -> "M" [] c = "n" -> "N" [] c = "o" -> "O" [] c = "p" -> "P"
      [] c = "q" -> "Q" [] c = "r" -> "R" [] c = "s" -> "S" [] c = "t" -> "T"
      [] c = "u" -> "U" [] c = "v" -> "V" [] c = "w" -> "W" [] c = "x" -> "X"
      [] c = "y" -> "Y" [] c = "z" -> "Z" [] OTHER -> c

\* s.split(/[-_]/g): the segments between separators (empty ones included).
RECURSIVE Split(_)
Split(s) ==
    IF s = <<>> THEN << <<>> >>
    ELSE LET rest == Split(Tail(s))
         IN  IF Head(s) \in {"-", "_"} THEN << <<>> >> \o rest
             ELSE << <<Head(s)>> \o Head(rest) >> \o Tail(rest)

\* p.charAt(0).toUpperCase() + p.slice(1)
Capitalize(p) == IF p = <<>> THEN <<>> ELSE <<ToUpperCase(Head(p))>> \o Tail(p)

pascal(s) ==
    LET segs == Split(s)
    IN  Flatten([n \in 1..Len(segs) |-> Capitalize(segs[n])])

\* JSON.stringify of a string: quoted, with quote and backslash escaped.
JSONEscape(c) ==
    CASE c = "\"" -> <<"\\", "\"">>
      [] c = "\\" -> <<"\\", "\\">>
      [] OTHER -> <<c>>

JSONStringify(s) ==
    <<"\"">> \o Flatten([n \in 1..Len(s) |-> JSONEscape(s[n])]) \o <<"\"">>

mapType(t) ==
    CASE t = "boolean" -> "boolean"
      [] t = "date" -> "Date"
      [] t = "number" -> "number"
      [] t = "string" -> "string"
      [] t = "number[]" -> "number[]"
      [] t = "string[]" -> "string[]"
      [] OTHER -> "unknown"

\* ------------------------------------------------------------------- diff

\* Mutant of Added: a field counts as added when the base has no equal field.
Added_ByValue(base, m, fields) ==
    SelectSeq(fields, LAMBDA e :
        \A n \in 1..Len(ObjGet(base, m, <<>>)) : ObjGet(base, m, <<>>)[n] # e)

\* Mutant of Added: the added fields come out in reverse order.
Added_Reversed(base, m, fields) ==
    LET kept == SelectSeq(fields, LAMBDA e : ~ObjHas(ObjGet(base, m, <<>>), e.k))
    IN  [n \in 1..Len(kept) |-> kept[Len(kept) + 1 - n]]

\* Object.entries(fields).filter(([k]) => !(k in (base[m]?.fields ?? {})))
Added(base, m, fields) ==
    SelectSeq(fields, LAMBDA e : ~ObjHas(ObjGet(base, m, <<>>), e.k))

\* Mutant of diffFrom: a model is recorded even when nothing was added to it.
RECURSIVE diffFrom_KeepsEmpty(_, _, _, _)
diffFrom_KeepsEmpty(base, target, n, d) ==
    IF n > Len(target) THEN d
    ELSE diffFrom_KeepsEmpty(base, target, n + 1,
             ObjSet(d, target[n].k,
                    ObjFromEntries(Added(base, target[n].k, target[n].v))))

RECURSIVE diffFrom(_, _, _, _)
diffFrom(base, target, n, d) ==
    IF n > Len(target) THEN d
    ELSE LET m == target[n].k
             added == Added(base, m, target[n].v)
         IN  diffFrom(base, target, n + 1,
                      IF Len(added) > 0
                      THEN ObjSet(d, m, ObjFromEntries(added))
                      ELSE d)

diff(base, target) == diffFrom(base, target, 1, <<>>)

\* --------------------------------------------------------------- emission

Chars_Base == <<"B", "a", "s", "e">>
Chars_Fields == <<"F", "i", "e", "l", "d", "s">>
Chars_PluginFields == <<"P", "l", "u", "g", "i", "n">> \o Chars_Fields
Chars_PluginId == <<"P", "l", "u", "g", "i", "n", "I", "d">>
Chars_BetterAuthFullSchema ==
    <<"B", "e", "t", "t", "e", "r", "A", "u", "t", "h",
      "F", "u", "l", "l", "S", "c", "h", "e", "m", "a">>
Chars_ModelKey == <<"M", "o", "d", "e", "l", "K", "e", "y">>

\* `Base${P}Fields`, `${P}PluginFields`, `${P}Fields`
BaseFieldsName(P) == Chars_Base \o P \o Chars_Fields
PluginFieldsName(P) == P \o Chars_PluginFields
FieldsName(P) == P \o Chars_Fields

\* `export type ${name} = {`
ExportOpen(name) == <<"export type ">> \o name \o <<" = {">>

\* `export type ${name} = ${rhs}`
ExportAlias(name, rhs) == <<"export type ">> \o name \o <<" = ">> \o rhs

BlankLine == <<>>

\* Mutant of FieldLine: the member is named by the field key.
FieldLine_ByKey(indent, e) ==
    <<indent>> \o e.k
        \o (IF Required(e.v) THEN <<>> ELSE <<"?">>)
        \o <<": ", mapType(e.v.type)>>

\* `${indent}${fieldName}${optional}: ${mapType(f.type)}`
FieldLine(indent, e) ==
    <<indent>> \o Nullish(e.v.fieldName, e.k)
        \o (IF Required(e.v) THEN <<>> ELSE <<"?">>)
        \o <<": ", mapType(e.v.type)>>

FieldLines(indent, flds) == [n \in 1..Len(flds) |-> FieldLine(indent, flds[n])]

Header ==
    << <<"/**">>,
       <<" * Auto-generated Better Auth types.">>,
       <<" * DO NOT EDIT - Run ", "<backtick>", "pnpm generate:types", "<backtick>",
         " to regenerate.">>,
       <<" *">>,
       <<" * Generated from Better Auth schema introspection.">>,
       <<" * Contains types for all supported plugins and their field additions.">>,
       <<" */">>,
       BlankLine >>

\* The base fields type of one model.
BaseBlock(P, base) ==
    << ExportOpen(BaseFieldsName(P)) >> \o FieldLines("  ", base)
        \o << <<"}">>, BlankLine >>

\* One plugin's sub-record of the plugin fields mapping.
PluginEntry(e) ==
    << <<"  ">> \o JSONStringify(e.k) \o <<": {">> >>
        \o FieldLines("    ", e.v) \o << <<"  }">> >>

PluginBlock(P, pluginsForModel) ==
    << ExportOpen(PluginFieldsName(P)) >>
        \o Flatten([n \in 1..Len(pluginsForModel) |-> PluginEntry(pluginsForModel[n])])
        \o << <<"}">>, BlankLine >>

\* Mutant of SingleBlock: the merged type is an intersection with itself.
SingleBlock_SelfIntersection(P, flds) ==
    << ExportOpen(FieldsName(P)) >> \o FieldLines("  ", flds)
        \o << <<"}">>, BlankLine,
              ExportAlias(P, FieldsName(P) \o <<" & ">> \o FieldsName(P)), BlankLine >>

\* A model that only one plugin defines: its fields type and a bare alias.
SingleBlock(P, flds) ==
    << ExportOpen(FieldsName(P)) >> \o FieldLines("  ", flds)
        \o << <<"}">>, BlankLine, ExportAlias(P, FieldsName(P)), BlankLine >>

NeedPluginMap(base, pluginIds) == Len(pluginIds) > 1 \/ Len(base) > 0

\* Mutant of Parts: the plugin parts come before the base part.
Parts_BaseLast(P, base, pluginIds) ==
    (IF Len(pluginIds) > 0
     THEN [n \in 1..Len(pluginIds) |->
              PluginFieldsName(P) \o <<"[">> \o JSONStringify(pluginIds[n]) \o <<"]">>]
     ELSE <<>>)
    \o (IF Len(base) > 0 THEN << BaseFieldsName(P) >> ELSE <<>>)

\* The parts of the intersection.
Parts(P, base, pluginIds) ==
    (IF Len(base) > 0 THEN << BaseFieldsName(P) >> ELSE <<>>)
    \o (IF Len(pluginIds) > 0
        THEN [n \in 1..Len(pluginIds) |->
                 IF NeedPluginMap(base, pluginIds)
                 THEN PluginFieldsName(P) \o <<"[">> \o JSONStringify(pluginIds[n]) \o <<"]">>
                 ELSE <<"never">>]
        ELSE <<>>)

CombinedBlock(P, base, pluginIds) ==
    << ExportAlias(P, Join(Parts(P, base, pluginIds), <<" & ">>)), BlankLine >>

\* Mutant of ModelBlock: the plugin fields mapping is emitted whenever
\* needPluginMap holds, also for a model no plugin adds to.
ModelBlock_EmptyPluginMap(model, schema, adds) ==
    LET P == pascal(model)
        base == ObjGet(schema, model, <<>>)
        pluginsForModel == ObjGet(adds, model, <<>>)
        pluginIds == ObjKeys(pluginsForModel)
    IN  (IF Len(base) > 0 THEN BaseBlock(P, base) ELSE <<>>)
        \o (IF NeedPluginMap(base, pluginIds)
            THEN PluginBlock(P, pluginsForModel) ELSE <<>>)
        \o (IF Len(base) = 0 /\ Len(pluginIds) = 1
            THEN SingleBlock(P, pluginsForModel[1].v)
            ELSE CombinedBlock(P, base, pluginIds))

\* Mutant of ModelBlock: no `continue` after the single-plugin-only branch.
ModelBlock_NoContinue(model, schema, adds) ==
    LET P == pascal(model)
        base == ObjGet(schema, model, <<>>)
        pluginsForModel == ObjGet(adds, model, <<>>)
        pluginIds == ObjKeys(pluginsForModel)
    IN  (IF Len(base) > 0 THEN BaseBlock(P, base) ELSE <<>>)
        \o (IF NeedPluginMap(base, pluginIds) /\ Len(pluginIds) > 0
            THEN PluginBlock(P, pluginsForModel) ELSE <<>>)
        \o (IF Len(base) = 0 /\ Len(pluginIds) = 1
            THEN SingleBlock(P, pluginsForModel[1].v) ELSE <<>>)
        \o CombinedBlock(P, base, pluginIds)

\* One iteration of `for (const model of models)`.
ModelBlock(model, schema, adds) ==
    LET P == pascal(model)
        base == ObjGet(schema, model, <<>>)
        pluginsForModel == ObjGet(adds, model, <<>>)
        pluginIds == ObjKeys(pluginsForModel)
    IN  (IF Len(base) > 0 THEN BaseBlock(P, base) ELSE <<>>)
        \o (IF NeedPluginMap(base, pluginIds) /\ Len(pluginIds) > 0
            THEN PluginBlock(P, pluginsForModel) ELSE <<>>)
        \o (IF Len(base) = 0 /\ Len(pluginIds) = 1
            THEN SingleBlock(P, pluginsForModel[1].v)
            ELSE CombinedBlock(P, base, pluginIds))

\* Mutant of Models: the models the plugins add to come first.
Models_PluginsFirst(schema, adds) == SetOf(ObjKeys(adds) \o ObjKeys(schema))

\* new Set([...Object.keys(baseSchema), ...Object.keys(pluginAdds)])
Models(schema, adds) == SetOf(ObjKeys(schema) \o ObjKeys(adds))

PluginIdBlock(ids) ==
    << <<"/**">>,
       <<" * Union of all supported plugin identifiers.">>,
       <<" */">>,
       ExportAlias(Chars_PluginId,
                   Join([n \in 1..Len(ids) |-> JSONStringify(ids[n])], <<" | ">>)),
       BlankLine >>

\* Mutant of MappingLine: the key is the type name, not the model's own name.
MappingLine_PascalKey(model) ==
    <<"  ">> \o JSONStringify(pascal(model)) \o <<": ">> \o pascal(model)

\* `  ${JSON.stringify(model)}: ${P}`
MappingLine(model) == <<"  ">> \o JSONStringify(model) \o <<": ">> \o pascal(model)

FullSchemaBlock(models) ==
    << <<"/**">>,
       <<" * Complete schema mapping of all models to their types.">>,
       <<" */">>,
       ExportOpen(Chars_BetterAuthFullSchema) >>
        \o [n \in 1..Len(models) |-> MappingLine(models[n])]
        \o << <<"}">>, BlankLine >>

ModelKeyBlock ==
    << <<"/**">>,
       <<" * Union of all model names in the schema.">>,
       <<" */">>,
       ExportAlias(Chars_ModelKey, <<"keyof ">> \o Chars_BetterAuthFullSchema) >>

\* Mutant of GenerateText: the union lists only the ids of the plugins that
\* add a field to some model.
GenerateText_ContributingIds(schema, adds, ids) ==
    LET models == Models(schema, adds)
        contributing == SelectSeq(ids, LAMBDA i :
                            \E n \in 1..Len(adds) : ObjHas(adds[n].v, i))
    IN  Header
        \o Flatten([n \in 1..Len(models) |-> ModelBlock(models[n], schema, adds)])
        \o PluginIdBlock(contributing)
        \o FullSchemaBlock(models)
        \o ModelKeyBlock

\* Mutant of GenerateText: the union of the plugin ids comes before the models.
GenerateText_UnionFirst(schema, adds, ids) ==
    LET models == Models(schema, adds)
    IN  Header
        \o PluginIdBlock(ids)
        \o Flatten([n \in 1..Len(models) |-> ModelBlock(models[n], schema, adds)])
        \o FullSchemaBlock(models)
        \o ModelKeyBlock

\* The text generate() returns, given what its loop over the plugins collected.
GenerateText(schema, adds, ids) ==
    LET models == Models(schema, adds)
    IN  Header
        \o Flatten([n \in 1..Len(models) |-> ModelBlock(models[n], schema, adds)])
        \o PluginIdBlock(ids)
        \o FullSchemaBlock(models)
        \o ModelKeyBlock

\* ------------------------------------------------------------ input domain

MaxPlugins == 3

N_user == <<"u", "s", "e", "r">>
N_jwks == <<"j", "w", "k", "s">>
K_id == <<"i", "d">>
K_ok == <<"o", "k">>
Id_admin == <<"a", "d", "m", "i", "n">>
Id_jwt == <<"j", "w", "t">>

A_string == [type |-> "string", required |-> "true", fieldName |-> Undefined]
A_date == [type |-> "date", required |-> "false", fieldName |-> Undefined]

SeqsUpTo(S, n) == UNION {[1..m -> S] : m \in 0..n}

DistinctKeys(o) == \A a, b \in 1..Len(o) : a # b => o[a].k # o[b].k

\* The objects with at most n properties, keys from K and values from V.
Objects(K, V, n) == {o \in SeqsUpTo([k : K, v : V], n) : DistinctKeys(o)}

\* The objects with keys from K and values from V.
AllObjects(K, V) == Objects(K, V, Cardinality(K))

\* The snapshots of the runs that vary the plugin list: one entity, one field.
CoreSnapshots == AllObjects({N_user}, AllObjects({K_id}, {A_string}))

MaxSchemaPlugins == 2
MaxEntities == 2
MaxFields == 2
MaxDiffFields == 3

ModelNames == {N_user, N_jwks}
FieldKeys == {K_id, K_ok}
FieldAttributes == {A_string, A_date}

FieldCount(schema) ==
    LET RECURSIVE Sum(_)
        Sum(n) == IF n = 0 THEN 0 ELSE Len(schema[n].v) + Sum(n - 1)
    IN  Sum(Len(schema))

Position(listing, x) == CHOOSE n \in 1..Len(listing) : listing[n] = x

\* The keys of o come in the order of the listing.
InListingOrder(o, listing) ==
    \A a, b \in 1..Len(o) :
        a < b => Position(listing, o[a].k) < Position(listing, o[b].k)

\* The field objects with at most n fields, listed in the order the schema
\* provider declares them.
ListedFields(attrs, n) ==
    {f \in Objects(FieldKeys, attrs, n) : InListingOrder(f, <<K_id, K_ok>>)}

\* The snapshots of the runs that vary the models: at most MaxEntities
\* models, each with a field, at most MaxFields fields in all, with models and
\* fields in the order the schema provider declares them.
ShapeSnapshots ==
    {o \in Objects(ModelNames, ListedFields({A_string}, MaxFields) \ {<<>>}, MaxEntities) :
        FieldCount(o) <= MaxFields /\ InListingOrder(o, <<N_user, N_jwks>>)}

\* The snapshots of the runs in which a plugin redefines a base field: one
\* model, at most MaxFields fields, each with either attribute.
RedefineSnapshots ==
    AllObjects({N_user}, ListedFields(FieldAttributes, MaxFields))

\* The snapshots of the runs that diff one plugin: at most MaxEntities models
\* and MaxDiffFields fields in all, in any order, a model with no field included.
DiffSnapshots ==
    {o \in Objects(ModelNames, Objects(FieldKeys, FieldAttributes, MaxDiffFields),
                   MaxEntities) : FieldCount(o) <= MaxDiffFields}

\* The snapshots of the runs that are repeated: one model, any of its fields.
RerunSnapshots == AllObjects({N_user}, AllObjects(FieldKeys, {A_string}))

N_two_factor == <<"t", "w", "o", "_", "f", "a", "c", "t", "o", "r">>
N_rate_limit == <<"r", "a", "t", "e", "-", "l", "i", "m", "i", "t">>
WireNames == {N_user, N_two_factor, N_rate_limit}

\* The snapshots of the runs that vary the names of the models: at most
\* MaxEntities models, in any order, each with the one field `id`.
NameSnapshots == Objects(WireNames, AllObjects({K_id}, {A_string}) \ {<<>>}, MaxEntities)

\* The attributes of the runs that vary how a member is written: every type
\* of the table and one that is not in it, `required` true, false or not
\* given, `fieldName` given or not.
F_uid == <<"u", "i", "d">>
FieldTypes == {"boolean", "date", "number", "string", "number[]", "string[]", "json"}
MemberAttributes ==
    [type : FieldTypes, required : {"true", "false", "undefined"},
     fieldName : {Undefined, F_uid}]

\* The snapshots of those runs: the model `user` with at most the field k.
MemberSnapshots(k) == AllObjects({N_user}, AllObjects({k}, MemberAttributes))

\* The snapshots of the runs that vary the order of the models: at most
\* MaxEntities models, in any order, each with the field `id` or, in the base
\* snapshot only, with no field.
OrderSnapshots(fields) == Objects(ModelNames, fields, MaxEntities)

\* The snapshots of the runs that vary which declarations a model gets: at
\* most MaxEntities models in the provider's order, each with one field or,
\* in the base snapshot only, with no field.
LayoutSnapshots(fields) ==
    {o \in Objects(ModelNames, fields, MaxEntities) : InListingOrder(o, <<N_user, N_jwks>>)}

K_at == <<"a", "t">>

\* The snapshots of the runs that vary the order of the fields: the model
\* `user` with at most MaxDiffFields of three fields, in any order.
FieldOrderSnapshots ==
    AllObjects({N_user}, Objects({K_id, K_ok, K_at}, {A_string}, MaxDiffFields))

\* The payloads onInit is called with and the options objects given to
\* createBetterAuthPlugin, one per plugin instance.
Payloads == {"payload1", "payload2"}
Options == {"optionsA", "optionsB"}

\* An auth instance: the object one call of a createAuth returned, told from
\* every other by the call that made it. NoInstance: `null`, or no property.
NoInstance == [by |-> "none", payload |-> "none", nr |-> 0]

MaxLifecycle == 4

N_two_factor_dash == <<"t", "w", "o", "-", "f", "a", "c", "t", "o", "r">>

\* The snapshots of the runs in which the names of two models differ only in
\* a separator: at most MaxEntities models, each with the one field `id`.
SeparatorSnapshots ==
    Objects({N_user, N_two_factor, N_two_factor_dash},
            AllObjects({K_id}, {A_string}) \ {<<>>}, MaxEntities)

\* The snapshots of the runs in which fields are renamed: the model `user`
\* with the fields `id` and `uid`, in any order, each named by its key or by
\* the fieldName `uid`.
OverrideSnapshots ==
    AllObjects({N_user},
               AllObjects({K_id, F_uid},
                          [type : {"string"}, required : {"true"},
                           fieldName : {Undefined, F_uid}]))

\* The snapshots of the plugins of the runs with descriptors that have no
\* id: the model `user` with at most the field `ok`.
NoIdSnapshots == AllObjects({N_user}, AllObjects({K_ok}, {A_string}))

PluginIds == {Id_admin, Id_jwt, Undefined}

\* A plugin descriptor: its id and the schema getSchema returns when it alone
\* is active.
Descriptors(ids, snapshots) == [id : ids, schema : snapshots]

NoError == [thrown |-> FALSE, names |-> {}]
NoText == << <<"<no text>">> >>
OldText == << <<"<previous content>">> >>

\* ------------------------------------------------------------------ state

VARIABLES
    plugins,      \* the `plugins` array (input)
    baseConfig,   \* the schema getSchema returns with no plugin (input)
    pc,           \* where the script is
    baseSchema,   \* `baseSchema`
    pl,           \* the index in `plugins` of the loop's `pl`
    seen,         \* `seen`
    pluginAdds,   \* `pluginAdds`
    adds,         \* `adds` of the last iteration that called diff
    generated,    \* `generated`
    file,         \* the content of generated-types.ts
    calls,        \* the calls of getSchema so far
    error,        \* the error the script ended with
    fileBefore,   \* the content of generated-types.ts when the run started
    earlier       \* the run of the script that ended before this one, if any

\* The access function canUpdateOwnFields returns, called once.
VARIABLES
    allowedFields,     \* `allowedFields` of the configuration
    args,              \* the arguments `{ req, id, data }` (input)
    step,              \* where the call is
    effectiveAllowed,  \* `effectiveAllowed`
    logins,            \* the calls of req.payload.login so far
    granted            \* what the access function returned

\* The user table and the requests that create a user through Better Auth.
VARIABLES
    adapter,           \* whether ctx.context.adapter has `count`
    userTable,         \* the rows of the model `user`, in creation order
    signups            \* the requests: the user each sent and where it is

\* detectAuthConfig, called once.
VARIABLES
    config,            \* `config` (input)
    detection          \* what detectAuthConfig returned

\* The Payload plugin: the module's auth instance and the payloads it is
\* attached to.
VARIABLES
    authInstance,      \* `authInstance` of the module
    betterAuth,        \* the property `betterAuth` of each payload
    lifecycle          \* the calls of onInit and resetAuthInstance so far

scriptVars == <<plugins, baseConfig, pc, baseSchema, pl, seen, pluginAdds, adds,
                generated, file, calls, error, fileBefore, earlier>>
accessVars == <<allowedFields, args, step, effectiveAllowed, logins, granted>>
hookVars == <<adapter, userTable, signups>>
detectVars == <<config, detection>>
pluginVars == <<authInstance, betterAuth, lifecycle>>

vars == <<scriptVars, accessVars, hookVars, detectVars, pluginVars>>

\* What a step of one part of the program leaves alone: the other parts.
exceptScript == <<accessVars, hookVars, detectVars, pluginVars>>
exceptAccess == <<scriptVars, hookVars, detectVars, pluginVars>>
exceptHook == <<scriptVars, accessVars, detectVars, pluginVars>>
exceptDetect == <<scriptVars, accessVars, hookVars, pluginVars>>
exceptPlugin == <<scriptVars, accessVars, hookVars, detectVars>>

\* A part of the program that does not run.
NoAccess ==
    /\ allowedFields = {}
    /\ args = <<>>
    /\ step = "Unused"
    /\ effectiveAllowed = {}
    /\ logins = <<>>
    /\ granted = "none"

NoSignup ==
    /\ adapter = "none"
    /\ userTable = <<>>
    /\ signups = <<>>

NoDetect ==
    /\ config = <<>>
    /\ detection = <<>>

NoPlugin ==
    /\ authInstance = NoInstance
    /\ betterAuth = [p \in Payloads |-> NoInstance]
    /\ lifecycle = <<>>

InitRun ==
    /\ pc = "Idle"
    /\ baseSchema = <<>>
    /\ pl = 0
    /\ seen = <<>>
    /\ pluginAdds = <<>>
    /\ adds = <<>>
    /\ generated = NoText
    /\ calls = <<>>
    /\ error = NoError
    /\ fileBefore = file

Init ==
    /\ plugins \in SeqsUpTo(Descriptors(PluginIds, CoreSnapshots), MaxPlugins)
    /\ baseConfig \in CoreSnapshots
    /\ file \in {NoText, OldText}
    /\ earlier = <<>>
    /\ InitRun
    /\ NoAccess /\ NoSignup /\ NoDetect /\ NoPlugin

InitShape ==
    /\ plugins \in SeqsUpTo(Descriptors({Id_admin, Id_jwt}, ShapeSnapshots),
                             MaxSchemaPlugins)
    /\ baseConfig \in ShapeSnapshots
    /\ file = OldText
    /\ earlier = <<>>
    /\ InitRun
    /\ NoAccess /\ NoSignup /\ NoDetect /\ NoPlugin

InitDiff ==
    /\ plugins \in {<<d>> : d \in Descriptors({Id_admin, Undefined}, DiffSnapshots)}
    /\ baseConfig \in DiffSnapshots
    /\ file = OldText
    /\ earlier = <<>>
    /\ InitRun
    /\ NoAccess /\ NoSignup /\ NoDetect /\ NoPlugin

InitRedefine ==
    /\ plugins \in SeqsUpTo(Descriptors({Id_admin, Id_jwt}, RedefineSnapshots),
                             MaxSchemaPlugins)
    /\ baseConfig \in RedefineSnapshots
    /\ file = OldText
    /\ earlier = <<>>
    /\ InitRun
    /\ NoAccess /\ NoSignup /\ NoDetect /\ NoPlugin

InitRerun ==
    /\ plugins \in SeqsUpTo(Descriptors({Id_admin, Id_jwt}, RerunSnapshots),
                             MaxSchemaPlugins)
    /\ baseConfig \in RerunSnapshots
    /\ file = OldText
    /\ earlier = <<>>
    /\ InitRun
    /\ NoAccess /\ NoSignup /\ NoDetect /\ NoPlugin

InitNames ==
    /\ plugins \in {<<d>> : d \in Descriptors({Id_admin, Undefined}, NameSnapshots)}
    /\ baseConfig \in NameSnapshots
    /\ file = OldText
    /\ earlier = <<>>
    /\ InitRun
    /\ NoAccess /\ NoSignup /\ NoDetect /\ NoPlugin

InitMembers ==
    /\ plugins \in {<<d>> : d \in Descriptors({Id_admin, Undefined}, MemberSnapshots(K_ok))}
    /\ baseConfig \in MemberSnapshots(K_id)
    /\ file = OldText
    /\ earlier = <<>>
    /\ InitRun
    /\ NoAccess /\ NoSignup /\ NoDetect /\ NoPlugin

InitOrder ==
    /\ plugins \in SeqsUpTo(Descriptors({Id_admin, Id_jwt},
                                OrderSnapshots(AllObjects({K_id}, {A_string}) \ {<<>>})),
                            MaxSchemaPlugins)
    /\ baseConfig \in OrderSnapshots(AllObjects({K_id}, {A_string}))
    /\ file = OldText
    /\ earlier = <<>>
    /\ InitRun
    /\ NoAccess /\ NoSignup /\ NoDetect /\ NoPlugin

InitFieldOrder ==
    /\ plugins \in {<<d>> : d \in Descriptors({Id_admin, Undefined}, FieldOrderSnapshots)}
    /\ baseConfig \in FieldOrderSnapshots
    /\ file = OldText
    /\ earlier = <<>>
    /\ InitRun
    /\ NoAccess /\ NoSignup /\ NoDetect /\ NoPlugin

InitLayout ==
    /\ plugins \in SeqsUpTo(Descriptors({Id_admin, Id_jwt},
                                LayoutSnapshots(Objects(FieldKeys, {A_string}, 1) \ {<<>>})),
                            MaxSchemaPlugins)
    /\ baseConfig \in LayoutSnapshots(AllObjects({K_id}, {A_string}))
    /\ file = OldText
    /\ earlier = <<>>
    /\ InitRun
    /\ NoAccess /\ NoSignup /\ NoDetect /\ NoPlugin

InitSeparators ==
    /\ plugins \in {<<d>> : d \in Descriptors({Id_admin, Undefined}, SeparatorSnapshots)}
    /\ baseConfig \in SeparatorSnapshots
    /\ file = OldText
    /\ earlier = <<>>
    /\ InitRun
    /\ NoAccess /\ NoSignup /\ NoDetect /\ NoPlugin

InitOverride ==
    /\ plugins \in {<<d>> : d \in Descriptors({Id_admin, Undefined}, OverrideSnapshots)}
    /\ baseConfig \in OverrideSnapshots
    /\ file = OldText
    /\ earlier = <<>>
    /\ InitRun
    /\ NoAccess /\ NoSignup /\ NoDetect /\ NoPlugin

InitNoId ==
    /\ plugins \in SeqsUpTo(Descriptors({Id_admin, Undefined}, NoIdSnapshots),
                             MaxSchemaPlugins)
    /\ baseConfig \in CoreSnapshots
    /\ file = OldText
    /\ earlier = <<>>
    /\ InitRun
    /\ NoAccess /\ NoSignup /\ NoDetect /\ NoPlugin

Returned(cs) == [cs EXCEPT ![Len(cs)].returned = TRUE]

\* const baseSchema = getSchema({ ...betterAuthConfig, plugins: [] }): the call.
BeginBase ==
    /\ pc = "Idle"
    /\ pc' = "BaseCall"
    /\ calls' = Append(calls, [active |-> <<>>, returned |-> FALSE])
    /\ UNCHANGED <<plugins, baseConfig, baseSchema, pl, seen, pluginAdds, adds,
                   generated, file, error, fileBefore, earlier>>
    /\ UNCHANGED exceptScript

\* getSchema returns the base schema; generate() is entered and its locals set.
ReturnBase ==
    /\ pc = "BaseCall"
    /\ baseSchema' = baseConfig
    /\ calls' = Returned(calls)
    /\ pluginAdds' = <<>>
    /\ seen' = <<>>
    /\ pl' = 1
    /\ pc' = "Loop"
    /\ UNCHANGED <<plugins, baseConfig, adds, generated, file, error, fileBefore, earlier>>
    /\ UNCHANGED exceptScript

\* An error thrown by getSchema: it may or may not name the plugins in `active`.
ProviderErrors(active) ==
    {[thrown |-> TRUE, names |-> S] : S \in SUBSET {plugins[n].id : n \in active}}

\* Nothing catches what getSchema throws: the script ends with that error.
Uncaught(e) == e

ThrowBase ==
    /\ pc = "BaseCall"
    /\ \E e \in ProviderErrors({}) : error' = Uncaught(e)
    /\ pc' = "Failed"
    /\ UNCHANGED <<plugins, baseConfig, baseSchema, pl, seen, pluginAdds, adds,
                   generated, file, calls, fileBefore, earlier>>
    /\ UNCHANGED exceptScript

\* Mutant of Skipped: a descriptor with no id is not skipped.
Skipped_IdNotRequired(id, ids) == SetHas(ids, id)

\* Mutant of Skipped: no deduplication by id.
Skipped_NoDedup(id, ids) == ~Truthy(id)

\* if (!id || seen.has(id)) continue
Skipped(id, ids) == ~Truthy(id) \/ SetHas(ids, id)

SkipPlugin ==
    /\ pc = "Loop"
    /\ pl <= Len(plugins)
    /\ Skipped(plugins[pl].id, seen)
    /\ pl' = pl + 1
    /\ UNCHANGED <<plugins, baseConfig, pc, baseSchema, seen, pluginAdds, adds,
                   generated, file, calls, error, fileBefore, earlier>>
    /\ UNCHANGED exceptScript

\* Mutant of ActiveFor: every plugin up to `pl` is active.
ActiveFor_Cumulative(n) == [c \in 1..n |-> c]

\* The plugins array of the call for `pl`: plugins: [pl].
ActiveFor(n) == <<n>>

\* seen.add(id); getSchema({ ...betterAuthConfig, plugins: [pl] }): the call.
BeginCall ==
    /\ pc = "Loop"
    /\ pl <= Len(plugins)
    /\ ~Skipped(plugins[pl].id, seen)
    /\ seen' = Append(seen, plugins[pl].id)
    /\ calls' = Append(calls, [active |-> ActiveFor(pl), returned |-> FALSE])
    /\ pc' = "PluginCall"
    /\ UNCHANGED <<plugins, baseConfig, baseSchema, pl, pluginAdds, adds,
                   generated, file, error, fileBefore, earlier>>
    /\ UNCHANGED exceptScript

\* Mutant of Merge: a field key another plugin already added to the model
\* takes that plugin's attributes (the plugins' records are unified).
RECURSIVE Merge_Unified(_, _, _)
Merge_Unified(table, id, d) ==
    IF d = <<>> THEN table
    ELSE LET before == Merge_Unified(table, id, SubSeq(d, 1, Len(d) - 1))
             m == d[Len(d)].k
             f == d[Len(d)].v
             others == ObjGet(before, m, <<>>)
             known(k) == {o \in 1..Len(others) : ObjHas(others[o].v, k)}
             unified == [n \in 1..Len(f) |->
                            IF known(f[n].k) = {} THEN f[n]
                            ELSE [k |-> f[n].k,
                                  v |-> ObjGet(others[CHOOSE o \in known(f[n].k) : TRUE].v,
                                               f[n].k, f[n].v)]]
         IN  ObjSet(before, m, ObjSet(others, id, unified))

\* Mutant of Merge: pluginAdds[m] = { [id]: f }, what other plugins recorded
\* for the model is dropped.
RECURSIVE Merge_Replaces(_, _, _)
Merge_Replaces(table, id, d) ==
    IF d = <<>> THEN table
    ELSE LET before == Merge_Replaces(table, id, SubSeq(d, 1, Len(d) - 1))
         IN  ObjSet(before, d[Len(d)].k, ObjSet(<<>>, id, d[Len(d)].v))

\* for (const [m, f] of Object.entries(adds)) { pluginAdds[m] ??= {}; pluginAdds[m][id] = f }
RECURSIVE Merge(_, _, _)
Merge(table, id, d) ==
    IF d = <<>> THEN table
    ELSE LET before == Merge(table, id, SubSeq(d, 1, Len(d) - 1))
             m == d[Len(d)].k
             f == d[Len(d)].v
         IN  ObjSet(before, m, ObjSet(ObjGet(before, m, <<>>), id, f))

\* getSchema returns the plugin's schema; the rest of the loop body runs.
ReturnCall ==
    /\ pc = "PluginCall"
    /\ calls' = Returned(calls)
    /\ adds' = diff(baseSchema, plugins[pl].schema)
    /\ pluginAdds' = Merge(pluginAdds, plugins[pl].id, adds')
    /\ pl' = pl + 1
    /\ pc' = "Loop"
    /\ UNCHANGED <<plugins, baseConfig, baseSchema, seen, generated, file,
                   error, fileBefore, earlier>>
    /\ UNCHANGED exceptScript

\* Mutant of ThrowCall: the error is caught and the loop goes on.
ThrowCall_Swallowed ==
    /\ pc = "PluginCall"
    /\ pl' = pl + 1
    /\ pc' = "Loop"
    /\ UNCHANGED <<plugins, baseConfig, baseSchema, seen, pluginAdds, adds,
                   generated, file, calls, error, fileBefore, earlier>>
    /\ UNCHANGED exceptScript

\* Mutant of ThrowCall: what was emitted so far is written before the run fails.
ThrowCall_WritesPartial ==
    /\ pc = "PluginCall"
    /\ \E e \in ProviderErrors({pl}) : error' = Uncaught(e)
    /\ file' = Header
    /\ pc' = "Failed"
    /\ UNCHANGED <<plugins, baseConfig, baseSchema, pl, seen, pluginAdds, adds,
                   generated, calls, fileBefore, earlier>>
    /\ UNCHANGED exceptScript

ThrowCall ==
    /\ pc = "PluginCall"
    /\ \E e \in ProviderErrors({pl}) : error' = Uncaught(e)
    /\ pc' = "Failed"
    /\ UNCHANGED <<plugins, baseConfig, baseSchema, pl, seen, pluginAdds, adds,
                   generated, file, calls, fileBefore, earlier>>
    /\ UNCHANGED exceptScript

\* The loop is over: the rest of generate() runs and returns the text.
Emit ==
    /\ pc = "Loop"
    /\ pl > Len(plugins)
    /\ generated' = GenerateText(baseSchema, pluginAdds, seen)
    /\ pc' = "Generated"
    /\ UNCHANGED <<plugins, baseConfig, baseSchema, pl, seen, pluginAdds, adds,
                   file, calls, error, fileBefore, earlier>>
    /\ UNCHANGED exceptScript

\* Mutant of WriteFile: the text is appended to the file.
WriteFile_Appends ==
    /\ pc = "Generated"
    /\ file' = file \o generated
    /\ pc' = "Succeeded"
    /\ UNCHANGED <<plugins, baseConfig, baseSchema, pl, seen, pluginAdds, adds,
                   generated, calls, error, fileBefore, earlier>>
    /\ UNCHANGED exceptScript

\* await fs.writeFile(outputFile, generated, 'utf8')
WriteFile ==
    /\ pc = "Generated"
    /\ file' = generated
    /\ pc' = "Succeeded"
    /\ UNCHANGED <<plugins, baseConfig, baseSchema, pl, seen, pluginAdds, adds,
                   generated, calls, error, fileBefore, earlier>>
    /\ UNCHANGED exceptScript

Next ==
    \/ BeginBase
    \/ ReturnBase
    \/ ThrowBase
    \/ SkipPlugin
    \/ BeginCall
    \/ ReturnCall
    \/ ThrowCall
    \/ Emit
    \/ WriteFile

Spec == Init /\ [][Next]_vars

RECURSIVE Ascending(_)
Ascending(S) ==
    IF S = {} THEN <<>>
    ELSE LET least == CHOOSE x \in S : \A y \in S : x <= y
         IN  <<least>> \o Ascending(S \ {least})

\* The lists that are left of s when some of its elements are removed.
SubLists(s) ==
    {[c \in 1..Cardinality(I) |-> s[Ascending(I)[c]]] : I \in SUBSET (1..Len(s))}

\* The script is run again (pnpm generate:types), in a new process, with the
\* same configuration or after descriptors were removed from `plugins`.
Rerun ==
    /\ pc \in {"Succeeded", "Failed"}
    /\ earlier' = << [plugins |-> plugins, baseConfig |-> baseConfig,
                      pc |-> pc, generated |-> generated, file |-> file] >>
    /\ plugins' \in SubLists(plugins)
    /\ pc' = "Idle"
    /\ baseSchema' = <<>>
    /\ pl' = 0
    /\ seen' = <<>>
    /\ pluginAdds' = <<>>
    /\ adds' = <<>>
    /\ generated' = NoText
    /\ calls' = <<>>
    /\ error' = NoError
    /\ fileBefore' = file
    /\ UNCHANGED <<baseConfig, file>>
    /\ UNCHANGED exceptScript

NextRerun == Next \/ Rerun

SpecRerun == InitRerun /\ [][NextRerun]_vars

SpecNoId == InitNoId /\ [][NextRerun]_vars

SpecShape == InitShape /\ [][Next]_vars

SpecDiff == InitDiff /\ [][Next]_vars

SpecRedefine == InitRedefine /\ [][Next]_vars

SpecOrder == InitOrder /\ [][Next]_vars

SpecFieldOrder == InitFieldOrder /\ [][Next]_vars

SpecLayout == InitLayout /\ [][Next]_vars

SpecSeparators == InitSeparators /\ [][Next]_vars

SpecOverride == InitOverride /\ [][Next]_vars

SpecNames == InitNames /\ [][Next]_vars

SpecMembers == InitMembers /\ [][Next]_vars

\* ----------------------------------------------------- canUpdateOwnFields
\* src/src/utils/access.ts.  A JavaScript value is a record [t, v]: its type
\* and, as a sequence of characters or of strings, its value.

JSUndefined == [t |-> "undefined", v |-> <<>>]
Str(s) == [t |-> "string", v |-> s]
Arr(a) == [t |-> "array", v |-> a]
Num(digits) == [t |-> "number", v |-> digits]

\* `a !== b` is false: same type and same value.
StrictEquals(a, b) == a.t = b.t /\ a.v = b.v

\* s.split(',')
RECURSIVE SplitComma(_)
SplitComma(s) ==
    IF s = <<>> THEN << <<>> >>
    ELSE LET rest == SplitComma(Tail(s))
         IN  IF Head(s) = "," THEN << <<>> >> \o rest
             ELSE << <<Head(s)>> \o Head(rest) >> \o Tail(rest)

\* String.prototype.trim
RECURSIVE Trim(_)
Trim(s) ==
    IF s = <<>> THEN <<>>
    ELSE IF Head(s) = " " THEN Trim(Tail(s))
    ELSE IF s[Len(s)] = " " THEN Trim(SubSeq(s, 1, Len(s) - 1))
    ELSE s

normalizeRoles(role) ==
    IF role.t = "array" THEN role.v
    ELSE IF role.t = "string"
         THEN IF \E n \in 1..Len(role.v) : role.v[n] = ","
              THEN SelectSeq([n \in 1..Len(SplitComma(role.v)) |-> Trim(SplitComma(role.v)[n])],
                             LAMBDA r : r # <<>>)
              ELSE IF role.v # <<>> THEN <<role.v>> ELSE <<>>
    ELSE <<>>

\* if (!user?.role) return false; userRoles.some((role) => roles.includes(role))
hasAnyRole(user, roles) ==
    /\ user.present
    /\ user.role # JSUndefined
    /\ user.role # Str(<<>>)
    /\ \E n \in 1..Len(normalizeRoles(user.role)) : normalizeRoles(user.role)[n] \in roles

Role_admin == <<"a", "d", "m", "i", "n">>
Role_user == <<"u", "s", "e", "r">>
Role_both == Role_user \o <<",", " ">> \o Role_admin

\* adminRoles = ['admin'], userSlug = 'users'
adminRoles == {Role_admin}
userSlug == "users"

\* hasAdminRoles({ adminRoles })({ req })
checkAdmin(req) == hasAnyRole(req.user, adminRoles)

\* The requests: no user, or a user with a role, an id and maybe an email.
NoUser == [present |-> FALSE, role |-> JSUndefined, id |-> JSUndefined, email |-> ""]
RoleValues == {JSUndefined, Str(Role_user), Str(Role_admin), Str(Role_both),
               Arr(<<Role_user>>)}
IdValues == {JSUndefined, Num(<<"1">>), Num(<<"2">>), Str(<<"1">>)}
Users ==
    {NoUser} \cup [present : {TRUE}, role : RoleValues, id : IdValues,
                   email : {"", "a@b.c"}]

\* `data`: not given, or an object with some of these keys.
DataKeys == {"name", "role", "password", "currentPassword"}
NoData == [present |-> FALSE, keys |-> {}]
DataValues == {NoData} \cup [present : {TRUE}, keys : SUBSET DataKeys]

InitAccess ==
    /\ allowedFields \in {{"name"}, {"name", "password"}}
    /\ args \in [req : [user : Users], id : IdValues, data : DataValues]
    /\ step = "Idle"
    /\ effectiveAllowed = {}
    /\ logins = <<>>
    /\ granted = "none"
    /\ plugins = <<>> /\ baseConfig = <<>> /\ file = NoText /\ earlier = <<>>
    /\ InitRun
    /\ NoSignup /\ NoDetect /\ NoPlugin

\* return value of the access function
Decision(allowed) == IF allowed THEN "granted" ELSE "denied"

\* dataKeys.some((key) => !effectiveAllowed.includes(key))
hasDisallowed(dataKeys, allowed) == \E key \in dataKeys : key \notin allowed

\* The access function, up to its return or to the call of req.payload.login.
AccessCall ==
    /\ step = "Idle"
    /\ effectiveAllowed' = allowedFields
    /\ LET user == args.req.user
           dataKeys == args.data.keys
           hasCurrentPassword == "currentPassword" \in dataKeys
           hasPassword == "password" \in dataKeys
       IN  IF checkAdmin(args.req)
           THEN granted' = Decision(TRUE) /\ step' = "Returned" /\ logins' = logins
           ELSE IF ~user.present
           THEN granted' = Decision(FALSE) /\ step' = "Returned" /\ logins' = logins
           ELSE IF ~StrictEquals(user.id, args.id) \/ ~args.data.present
           THEN granted' = Decision(FALSE) /\ step' = "Returned" /\ logins' = logins
           ELSE IF hasPassword \/ hasCurrentPassword
           THEN IF ~(hasCurrentPassword /\ hasPassword) \/ user.email = ""
                THEN granted' = Decision(FALSE) /\ step' = "Returned" /\ logins' = logins
                ELSE /\ logins' = Append(logins,
                            [collection |-> userSlug, email |-> user.email,
                             password |-> "data.currentPassword",
                             result |-> "pending"])
                     /\ step' = "Login"
                     /\ granted' = granted
           ELSE /\ granted' = Decision(~hasDisallowed(dataKeys, allowedFields))
                /\ step' = "Returned"
                /\ logins' = logins
    /\ UNCHANGED <<allowedFields, args>>
    /\ UNCHANGED exceptAccess

Settled(ls, result) == [ls EXCEPT ![Len(ls)].result = result]

\* req.payload.login resolves, with the logged-in user or with nothing.
LoginResolves ==
    /\ step = "Login"
    /\ \E result \in {"user", "null"} :
          /\ logins' = Settled(logins, result)
          /\ IF result = "null"
             THEN granted' = Decision(FALSE) /\ effectiveAllowed' = effectiveAllowed
             ELSE /\ effectiveAllowed' = effectiveAllowed \cup {"password", "currentPassword"}
                  /\ granted' = Decision(~hasDisallowed(args.data.keys, effectiveAllowed'))
    /\ step' = "Returned"
    /\ UNCHANGED <<allowedFields, args>>
    /\ UNCHANGED exceptAccess

\* Mutant of LoginRejects: the error is ignored and the password keys allowed.
LoginRejects_Ignored ==
    /\ step = "Login"
    /\ logins' = Settled(logins, "threw")
    /\ effectiveAllowed' = effectiveAllowed \cup {"password", "currentPassword"}
    /\ granted' = Decision(~hasDisallowed(args.data.keys, effectiveAllowed'))
    /\ step' = "Returned"
    /\ UNCHANGED <<allowedFields, args>>
    /\ UNCHANGED exceptAccess

\* req.payload.login throws: catch { return false }
LoginRejects ==
    /\ step = "Login"
    /\ logins' = Settled(logins, "threw")
    /\ granted' = Decision(FALSE)
    /\ step' = "Returned"
    /\ UNCHANGED <<allowedFields, args, effectiveAllowed>>
    /\ UNCHANGED exceptAccess

NextAccess ==
    \/ AccessCall
    \/ LoginResolves
    \/ LoginRejects

SpecAccess == InitAccess /\ [][NextAccess]_vars

\* ---------------------------------------------------- firstUserAdminHooks
\* src/src/utils/firstUserAdmin.ts.  Each request that creates a user runs
\* the create.before hook and then has Better Auth insert the row the hook
\* returned; the requests run concurrently and interleave at each await.

MaxSignups == 2

\* adminRole = 'admin', defaultRole = 'user'
adminRole == "admin"
defaultRole == "user"
NoRole == "undefined"

\* The role a request sends in `user[roleField]`, if any.
SuppliedRoles == {NoRole, "editor"}

\* user[roleField] ?? defaultRole
ProvidedOrDefault(role) == IF role = NoRole THEN defaultRole ELSE role

\* userCount === 0 ? adminRole : user[roleField] ?? defaultRole
RoleFor(userCount, role) ==
    IF userCount = 0 THEN adminRole ELSE ProvidedOrDefault(role)

InitSignup ==
    /\ adapter \in {"count", "no count"}
    /\ userTable = <<>>
    /\ signups \in [1..MaxSignups -> [role : SuppliedRoles, step : {"Idle"}, data : {NoRole}]]
    /\ plugins = <<>> /\ baseConfig = <<>> /\ file = NoText /\ earlier = <<>>
    /\ InitRun
    /\ NoAccess /\ NoDetect /\ NoPlugin

\* The hook is entered: without adapter.count it returns at once, else it
\* calls adapter.count and awaits.
HookBegin(r) ==
    /\ signups[r].step = "Idle"
    /\ signups' = [signups EXCEPT ![r] =
          IF adapter = "no count"
          THEN [@ EXCEPT !.step = "Hooked", !.data = ProvidedOrDefault(signups[r].role)]
          ELSE [@ EXCEPT !.step = "Counting"]]
    /\ UNCHANGED <<adapter, userTable>>
    /\ UNCHANGED exceptHook

\* adapter.count resolves with the number of rows and the hook returns.
CountResolves(r) ==
    /\ signups[r].step = "Counting"
    /\ signups' = [signups EXCEPT ![r] =
          [@ EXCEPT !.step = "Hooked", !.data = RoleFor(Len(userTable), signups[r].role)]]
    /\ UNCHANGED <<adapter, userTable>>
    /\ UNCHANGED exceptHook

\* adapter.count throws: catch, warn, provided or default role.
CountRejects(r) ==
    /\ signups[r].step = "Counting"
    /\ signups' = [signups EXCEPT ![r] =
          [@ EXCEPT !.step = "Hooked", !.data = ProvidedOrDefault(signups[r].role)]]
    /\ UNCHANGED <<adapter, userTable>>
    /\ UNCHANGED exceptHook

\* Better Auth inserts the row the hook returned.
CreateUser(r) ==
    /\ signups[r].step = "Hooked"
    /\ userTable' = Append(userTable, [by |-> r, role |-> signups[r].data,
                                       supplied |-> signups[r].role])
    /\ signups' = [signups EXCEPT ![r] = [@ EXCEPT !.step = "Created"]]
    /\ UNCHANGED adapter
    /\ UNCHANGED exceptHook

NextSignup ==
    \E r \in 1..MaxSignups :
        \/ HookBegin(r)
        \/ CountResolves(r)
        \/ CountRejects(r)
        \/ CreateUser(r)

SpecSignup == InitSignup /\ [][NextSignup]_vars

\* ------------------------------------------------------- detectAuthConfig
\* src/unnamed/part_009.

MaxCollections == 2

\* `collection.auth`: not given, false, true, or an object whose
\* disableLocalStrategy is not given, false or true.
AuthValues ==
    {[t |-> "undefined", v |-> "undefined", disableLocalStrategy |-> "undefined"],
     [t |-> "boolean", v |-> "false", disableLocalStrategy |-> "undefined"],
     [t |-> "boolean", v |-> "true", disableLocalStrategy |-> "undefined"]}
    \cup [t : {"object"}, v : {"object"},
          disableLocalStrategy : {"undefined", "false", "true"}]

\* auth === true
AuthIsTrue(auth) == auth.t = "boolean" /\ auth.v = "true"

\* `if (collection.auth)`: undefined and false are falsy.
AuthTruthy(auth) == AuthIsTrue(auth) \/ auth.t = "object"

\* typeof auth === 'object' && auth.disableLocalStrategy
DisablesLocalStrategy(auth) == auth.t = "object" /\ auth.disableLocalStrategy = "true"

Collections == [slug : {"users", "admins"}, auth : AuthValues]

NoCollection ==
    [slug |-> "null",
     auth |-> [t |-> "undefined", v |-> "undefined", disableLocalStrategy |-> "undefined"]]

NotFound ==
    [hasDisableLocalStrategy |-> FALSE, authCollectionSlug |-> "null",
     authCollectionConfig |-> NoCollection]

\* The loop over the collections, from the n-th on.
RECURSIVE detectFrom(_, _)
detectFrom(collections, n) ==
    IF n > Len(collections) THEN NotFound
    ELSE LET collection == collections[n]
             auth == collection.auth
         IN  IF AuthTruthy(auth) /\ (AuthIsTrue(auth) \/ DisablesLocalStrategy(auth))
             THEN [hasDisableLocalStrategy |->
                       AuthIsTrue(auth) \/ DisablesLocalStrategy(auth),
                   authCollectionSlug |-> collection.slug,
                   authCollectionConfig |-> collection]
             ELSE detectFrom(collections, n + 1)

detectAuthConfig(cfg) == detectFrom(cfg.collections, 1)

InitDetect ==
    /\ config \in [collections : SeqsUpTo(Collections, MaxCollections)]
    /\ detection = <<>>
    /\ plugins = <<>> /\ baseConfig = <<>> /\ file = NoText /\ earlier = <<>>
    /\ InitRun
    /\ NoAccess /\ NoSignup /\ NoPlugin

\* const authDetection = detectAuthConfig(config)
Detect ==
    /\ detection = <<>>
    /\ detection' = <<detectAuthConfig(config)>>
    /\ UNCHANGED config
    /\ UNCHANGED exceptDetect

NextDetect == Detect

SpecDetect == InitDetect /\ [][NextDetect]_vars

\* ------------------------------------------------- createBetterAuthPlugin

\* let authInstance: Auth | null = null; no payload has the property yet.
InitPlugin ==
    /\ authInstance = NoInstance
    /\ betterAuth = [p \in Payloads |-> NoInstance]
    /\ lifecycle = <<>>
    /\ plugins = <<>> /\ baseConfig = <<>> /\ file = NoText /\ earlier = <<>>
    /\ InitRun
    /\ NoAccess /\ NoSignup /\ NoDetect

\* The calls of createAuth that returned so far.
Created(log) == SelectSeq(log, LAMBDA e : e.createAuth = "returned")

\* The object createAuth(payload) of the options o returns: a new one each call.
createAuth(o, p) == [by |-> o, payload |-> p, nr |-> Len(Created(lifecycle)) + 1]

\* Mutant of OnInit: createAuth is called for every payload without the
\* property, whether the module has an instance or not.
OnInit_AlwaysCreates(o, p, existingThrows, createThrows) ==
    LET attached == betterAuth[p] # NoInstance
        creates == ~existingThrows /\ ~attached
        instance == IF creates /\ ~createThrows THEN createAuth(o, p) ELSE authInstance
        attaches == ~existingThrows /\ ~attached /\ ~(creates /\ createThrows)
    IN  /\ Len(lifecycle) < MaxLifecycle
        /\ createThrows => creates
        /\ authInstance' = instance
        /\ betterAuth' = IF attaches THEN [betterAuth EXCEPT ![p] = instance] ELSE betterAuth
        /\ lifecycle' = Append(lifecycle,
              [op |-> "onInit", options |-> o, payload |-> p,
               createAuth |-> IF ~creates THEN "none"
                              ELSE IF createThrows THEN "threw" ELSE "returned",
               threw |-> existingThrows \/ (creates /\ createThrows),
               before |-> betterAuth[p],
               after |-> IF attaches THEN instance ELSE betterAuth[p]])
        /\ UNCHANGED exceptPlugin

\* onInit: async (payload) => { ... } of the config the plugin made from the
\* options o. existingOnInit is the configuration's own; what follows its
\* await runs without interruption.
OnInit(o, p, existingThrows, createThrows) ==
    LET attached == betterAuth[p] # NoInstance
        creates == ~existingThrows /\ ~attached /\ authInstance = NoInstance
        instance == IF creates /\ ~createThrows THEN createAuth(o, p) ELSE authInstance
        attaches == ~existingThrows /\ ~attached /\ ~(creates /\ createThrows)
    IN  /\ Len(lifecycle) < MaxLifecycle
        /\ createThrows => creates
        /\ authInstance' = instance
        /\ betterAuth' = IF attaches THEN [betterAuth EXCEPT ![p] = instance] ELSE betterAuth
        /\ lifecycle' = Append(lifecycle,
              [op |-> "onInit", options |-> o, payload |-> p,
               createAuth |-> IF ~creates THEN "none"
                              ELSE IF createThrows THEN "threw" ELSE "returned",
               threw |-> existingThrows \/ (creates /\ createThrows),
               before |-> betterAuth[p],
               after |-> IF attaches THEN instance ELSE betterAuth[p]])
        /\ UNCHANGED exceptPlugin

\* export function resetAuthInstance(): void { authInstance = null }
resetAuthInstance ==
    /\ Len(lifecycle) < MaxLifecycle
    /\ authInstance' = NoInstance
    /\ lifecycle' = Append(lifecycle,
          [op |-> "reset", options |-> "none", payload |-> "none",
           createAuth |-> "none", threw |-> FALSE,
           before |-> NoInstance, after |-> NoInstance])
    /\ UNCHANGED betterAuth
    /\ UNCHANGED exceptPlugin

NextPlugin ==
    \/ \E o \in Options, p \in Payloads, existingThrows, createThrows \in BOOLEAN :
          OnInit(o, p, existingThrows, createThrows)
    \/ resetAuthInstance

SpecPlugin == InitPlugin /\ [][NextPlugin]_vars

\* ------------------------------------------------------------- the claims

IsPrefix(a, b) == Len(a) <= Len(b) /\ a = SubSeq(b, 1, Len(a))

\* The indexes of the descriptors that have an id no earlier descriptor has.
FirstOccurrences ==
    {n \in 1..Len(plugins) :
        /\ plugins[n].id # Undefined
        /\ plugins[n].id # <<>>
        /\ \A m \in 1..(n - 1) : plugins[m].id # plugins[n].id}

\* The calls of getSchema a whole run makes, by their active plugins.
ExpectedCalls ==
    LET first == Ascending(FirstOccurrences)
    IN  << <<>> >> \o [n \in 1..Len(first) |-> <<first[n]>>]

ActiveOfCalls == [c \in 1..Len(calls) |-> calls[c].active]

\* The last call of getSchema did not return and is no longer running: it threw.
LastCallThrew ==
    /\ calls # <<>>
    /\ ~calls[Len(calls)].returned
    /\ pc \notin {"BaseCall", "PluginCall"}

\* C4: getSchema is called once with no plugin active, then once per distinct
\* plugin id in order of first occurrence, each time with exactly that one
\* plugin active; no call has two plugins active and a call starts only after
\* every earlier call has returned.
C4_CallSequence ==
    /\ IsPrefix(ActiveOfCalls, ExpectedCalls)
    /\ pc \in {"Generated", "Succeeded"} => ActiveOfCalls = ExpectedCalls
    /\ \A c \in 1..Len(calls) :
          /\ Len(calls[c].active) <= 1
          /\ (c = 1) = (calls[c].active = <<>>)
          /\ c < Len(calls) => calls[c].returned

C4_Witness ==
    /\ pc = "Succeeded"
    /\ Len(plugins) = 3
    /\ Len(calls) = 3
    /\ plugins[1].id = plugins[2].id

\* C5: when getSchema throws during a plugin's call the run is Failed with
\* that error, nothing more can happen (no later call, no retry), no text was
\* generated and the file still has the content it had before the run.
C5_ThrowAborts ==
    (LastCallThrew /\ Len(calls) > 1) =>
        /\ pc = "Failed"
        /\ error.thrown
        /\ generated = NoText
        /\ file = fileBefore
        /\ \A c \in 1..(Len(calls) - 1) : calls[c].active # calls[Len(calls)].active
        /\ ~ENABLED Next

C5_Witness ==
    /\ pc = "Failed"
    /\ Len(calls) = 3
    /\ file = OldText

\* C6: when getSchema throws during plugin X's call, the error the run ends
\* with names X.
C6_ErrorNamesPlugin ==
    (pc = "Failed" /\ Len(calls) > 1) => plugins[pl].id \in error.names

\* What the inputs say about a model, stated without diff or pluginAdds.

Range(f) == {f[n] : n \in DOMAIN f}
KeysOf(o) == {e.k : e \in Range(o)}
FieldsIn(schema, m) ==
    IF m \in KeysOf(schema) THEN (CHOOSE e \in Range(schema) : e.k = m).v ELSE <<>>
BaseKeys(m) == KeysOf(FieldsIn(baseConfig, m))
HasBase(m) == BaseKeys(m) # {}

\* The fields plugin n gives model m that the base does not have, in its order.
NewFields(n, m) ==
    SelectSeq(FieldsIn(plugins[n].schema, m), LAMBDA e : e.k \notin BaseKeys(m))

\* The ids of the plugins that add a field to m, in declaration order.
Contributors(m) == {n \in FirstOccurrences : NewFields(n, m) # <<>>}
ExtIds(m) ==
    LET cs == Ascending(Contributors(m))
    IN  [c \in 1..Len(cs) |-> plugins[cs[c]].id]

\* Reading the generated text.

HasText == pc \in {"Generated", "Succeeded"}
Declares(name) == \E n \in 1..Len(generated) : generated[n] = ExportOpen(name)

\* The lines of the record type `name`, between its opening line and its `}`.
Block(name) ==
    LET open == CHOOSE n \in 1..Len(generated) : generated[n] = ExportOpen(name)
        close == CHOOSE n \in (open + 1)..Len(generated) :
                    /\ generated[n] = <<"}">>
                    /\ \A c \in (open + 1)..(n - 1) : generated[c] # <<"}">>
    IN  SubSeq(generated, open + 1, close - 1)

\* The right-hand sides of the declarations `export type P = ...`.
MergedTypes(P) ==
    LET head == <<"export type ">> \o P \o <<" = ">>
    IN  {SubSeq(generated[n], Len(head) + 1, Len(generated[n])) :
            n \in {c \in 1..Len(generated) : IsPrefix(head, generated[c])}}

\* The name of the member a line declares: what stands between the
\* indentation and the `?` or `: `.
MemberName(line) ==
    LET stop == CHOOSE n \in 2..Len(line) :
                    /\ line[n] \in {"?", ": "}
                    /\ \A c \in 2..(n - 1) : line[c] \notin {"?", ": "}
    IN  SubSeq(line, 2, stop - 1)
IsMember(line) == Len(line) > 2 /\ line[1] \in {"  ", "    "} /\ line[Len(line) - 1] = ": "
MemberNames(lines) == {MemberName(l) : l \in {x \in Range(lines) : IsMember(x)}}

\* diff has run for the plugin of the last call of getSchema, which returned.
DiffDone == Len(calls) > 1 /\ calls[Len(calls)].returned

C2_DeltaExcludesBase ==
    /\ \A a \in 1..Len(pluginAdds) : \A b \in 1..Len(pluginAdds[a].v) :
          KeysOf(pluginAdds[a].v[b].v) \cap BaseKeys(pluginAdds[a].k) = {}
    /\ HasText =>
          \A m \in ModelNames : HasBase(m) =>
             /\ Declares(BaseFieldsName(pascal(m)))
             /\ Block(BaseFieldsName(pascal(m))) = FieldLines("  ", FieldsIn(baseConfig, m))
             /\ ~Declares(FieldsName(pascal(m)))
             /\ Declares(PluginFieldsName(pascal(m))) =>
                   MemberNames(Block(PluginFieldsName(pascal(m)))) \cap BaseKeys(m) = {}

\* A plugin gives a base field other attributes and also adds a field.
C2_Witness ==
    /\ pc = "Succeeded"
    /\ \E n \in FirstOccurrences : \E m \in ModelNames :
          /\ NewFields(n, m) # <<>>
          /\ \E e \in Range(FieldsIn(plugins[n].schema, m)) :
                /\ e.k \in BaseKeys(m)
                /\ e \notin Range(FieldsIn(baseConfig, m))

\* C8: a model with a base field and no contributing plugin has a base
\* fields type, no plugin fields type, and its merged type is the base fields
\* type name alone.
C8_BaseOnly ==
    HasText =>
       \A m \in ModelNames : (HasBase(m) /\ Contributors(m) = {}) =>
          /\ Declares(BaseFieldsName(pascal(m)))
          /\ ~Declares(PluginFieldsName(pascal(m)))
          /\ MergedTypes(pascal(m)) = {BaseFieldsName(pascal(m))}

C8_Witness ==
    /\ pc = "Succeeded"
    /\ HasBase(N_user) /\ Contributors(N_user) = {}
    /\ Contributors(N_jwks) # {}

\* C9: a model with no base field and exactly one contributing plugin has no
\* base fields type and no plugin fields type, one flat fields type with
\* exactly that plugin's fields, and its merged type is that type's name alone.
C9_SinglePluginOnly ==
    HasText =>
       \A m \in ModelNames : (~HasBase(m) /\ Cardinality(Contributors(m)) = 1) =>
          LET n == CHOOSE c \in Contributors(m) : TRUE
          IN  /\ ~Declares(BaseFieldsName(pascal(m)))
              /\ ~Declares(PluginFieldsName(pascal(m)))
              /\ Declares(FieldsName(pascal(m)))
              /\ Block(FieldsName(pascal(m))) = FieldLines("  ", NewFields(n, m))
              /\ MergedTypes(pascal(m)) = {FieldsName(pascal(m))}

C9_Witness ==
    /\ pc = "Succeeded"
    /\ ~HasBase(N_jwks) /\ Cardinality(Contributors(N_jwks)) = 1
    /\ \E n \in Contributors(N_jwks) : Len(NewFields(n, N_jwks)) = 2

\* The intersection C10 expects for model m.
ExpectedIntersection(m) ==
    LET P == pascal(m)
        ids == ExtIds(m)
    IN  Join((IF HasBase(m) THEN << BaseFieldsName(P) >> ELSE <<>>)
             \o [c \in 1..Len(ids) |->
                    PluginFieldsName(P) \o <<"[">> \o JSONStringify(ids[c]) \o <<"]">>],
             <<" & ">>)

FirstOnly(list) ==
    SelectSeq([n \in 1..Len(list) |-> [at |-> n, d |-> list[n]]],
              LAMBDA x : \A m \in 1..(x.at - 1) : list[m].id # x.d.id)

WithoutLaterDuplicates(list) ==
    [n \in 1..Len(FirstOnly(list)) |-> FirstOnly(list)[n].d]

\* C3: a run on a list in which an id occurs more than once generates the
\* text that a run on the list without the later occurrences generates, and
\* a run fails only when getSchema throws.
C3_FirstOccurrenceWins ==
    /\ pc = "Failed" => LastCallThrew
    /\ \A r \in Range(earlier) :
          (/\ r.pc = "Succeeded"
           /\ HasText
           /\ plugins # r.plugins
           /\ plugins = WithoutLaterDuplicates(r.plugins)) =>
              generated = r.generated

\* The first run had the same id twice, with different fields.
C3_Witness ==
    /\ pc = "Succeeded"
    /\ earlier # <<>>
    /\ earlier[1].pc = "Succeeded"
    /\ Len(earlier[1].plugins) = 2
    /\ earlier[1].plugins[1].id = earlier[1].plugins[2].id
    /\ Len(diff(baseConfig, earlier[1].plugins[1].schema)) = 1
    /\ Len(diff(baseConfig, earlier[1].plugins[2].schema)) = 1
    /\ earlier[1].plugins[1].schema # earlier[1].plugins[2].schema
    /\ Len(plugins) = 1
    /\ plugins = WithoutLaterDuplicates(earlier[1].plugins)

ExpectedPluginLines(m) ==
    LET cs == Ascending(Contributors(m))
    IN  Flatten([c \in 1..Len(cs) |->
            << <<"  ">> \o JSONStringify(plugins[cs[c]].id) \o <<": {">> >>
            \o FieldLines("    ", NewFields(cs[c], m))
            \o << <<"  }">> >>])

\* C11: a plugin fields type is emitted for a model exactly when a plugin
\* contributes to it and it has a base field or two or more contributing
\* plugins; its keys are the contributing ids and under each id stand exactly
\* that plugin's own new fields with that plugin's own attributes, so a field
\* key two plugins add with different types appears once under each id.
C11_PluginFields ==
    HasText =>
       \A m \in ModelNames :
          /\ Declares(PluginFieldsName(pascal(m))) <=>
                (/\ Contributors(m) # {}
                 /\ (HasBase(m) \/ Cardinality(Contributors(m)) > 1))
          /\ Declares(PluginFieldsName(pascal(m))) =>
                Block(PluginFieldsName(pascal(m))) = ExpectedPluginLines(m)

\* Two plugins add the same field key with different types.
C11_Witness ==
    /\ pc = "Succeeded"
    /\ Declares(PluginFieldsName(pascal(N_user)))
    /\ \E a, b \in Contributors(N_user) :
          \E x \in Range(NewFields(a, N_user)), y \in Range(NewFields(b, N_user)) :
             x.k = y.k /\ x.v.type # y.v.type

\* s without the later occurrences of its elements.
WithoutRepeats(s) ==
    LET firsts == Ascending({n \in 1..Len(s) : \A c \in 1..(n - 1) : s[c] # s[n]})
    IN  [c \in 1..Len(firsts) |-> s[firsts[c]]]

Names(o) == [n \in 1..Len(o) |-> o[n].k]

\* The models plugin n adds a field to, in the order of its snapshot.
Introduced(n) ==
    SelectSeq(Names(plugins[n].schema), LAMBDA m : NewFields(n, m) # <<>>)

\* The models of the base snapshot in its order, then the models the plugins
\* add a field to, by first contributing plugin in declaration order.
ExpectedEntities ==
    LET first == Ascending(FirstOccurrences)
    IN  WithoutRepeats(Names(baseConfig)
                       \o Flatten([c \in 1..Len(first) |-> Introduced(first[c])]))

\* JSON.parse of a string literal: the quotes removed, the escapes undone.
RECURSIVE Unescape(_)
Unescape(s) ==
    IF s = <<>> THEN <<>>
    ELSE IF Head(s) = "\\" /\ Len(s) > 1 THEN <<s[2]>> \o Unescape(Tail(Tail(s)))
    ELSE <<Head(s)>> \o Unescape(Tail(s))
JSONParse(lit) == Unescape(SubSeq(lit, 2, Len(lit) - 1))

\* The key and the value of a line `  "key": Value` of the master mapping.
ColonAt(line) == CHOOSE n \in 1..Len(line) : line[n] = ": "
MappingKey(line) == JSONParse(SubSeq(line, 2, ColonAt(line) - 1))
MappingValue(line) == SubSeq(line, ColonAt(line) + 1, Len(line))

\* The models of the master mapping, in the order of its lines.
MappedEntities ==
    LET lines == Block(Chars_BetterAuthFullSchema)
    IN  [n \in 1..Len(lines) |-> MappingKey(lines[n])]

\* The lines that declare a merged type `export type P = ...` for model m.
MergedAt(m) ==
    LET head == <<"export type ">> \o pascal(m) \o <<" = ">>
    IN  {n \in 1..Len(generated) : IsPrefix(head, generated[n])}

C13_EmptyNeverEmitted ==
    HasText =>
       \A m \in ModelNames : (~HasBase(m) /\ Contributors(m) = {}) =>
          /\ MergedAt(m) = {}
          /\ ~Declares(BaseFieldsName(pascal(m)))
          /\ ~Declares(PluginFieldsName(pascal(m)))
          /\ ~Declares(FieldsName(pascal(m)))
          /\ m \notin Range(MappedEntities)

\* The pieces of a line between the tokens `sep`.
RECURSIVE SplitAt(_, _)
SplitAt(line, sep) ==
    IF line = <<>> THEN << <<>> >>
    ELSE LET rest == SplitAt(Tail(line), sep)
         IN  IF Head(line) = sep THEN << <<>> >> \o rest
             ELSE << <<Head(line)>> \o Head(rest) >> \o Tail(rest)

\* The ids of the union `export type PluginId = "a" | "b"`, in its order.
UnionIds ==
    LET head == <<"export type ">> \o Chars_PluginId \o <<" = ">>
        at == CHOOSE n \in 1..Len(generated) : IsPrefix(head, generated[n])
        rhs == SubSeq(generated[at], Len(head) + 1, Len(generated[at]))
        lits == IF rhs = <<>> THEN <<>> ELSE SplitAt(rhs, " | ")
    IN  [n \in 1..Len(lits) |-> JSONParse(lits[n])]

\* The ids of the descriptors processed in a run, by first occurrence.
ProcessedIds ==
    LET first == Ascending(FirstOccurrences)
    IN  [c \in 1..Len(first) |-> plugins[first[c]].id]

\* C14: the PluginId union lists every distinct plugin id processed in the
\* run once, in order of first occurrence in `plugins`, the ids of plugins
\* that add no field included, and nothing else.
C14_PluginIdUnion ==
    HasText =>
       /\ Cardinality({n \in 1..Len(generated) :
             IsPrefix(<<"export type ">> \o Chars_PluginId \o <<" = ">>, generated[n])}) = 1
       /\ UnionIds = ProcessedIds

\* Three descriptors, an id twice, and the first plugin adds nothing.
C14_Witness ==
    /\ pc = "Succeeded"
    /\ Len(plugins) = 3
    /\ plugins[1].id = Id_jwt /\ plugins[2].id = Id_admin /\ plugins[3].id = Id_jwt
    /\ Contributors(N_user) = {2}
    /\ UnionIds = <<Id_jwt, Id_admin>>

\* The names the text declares with `export type Name = ...` on one line,
\* in order, PluginId and ModelKey left out: the merged types of the models.
EqualsAt(line) == CHOOSE n \in 1..Len(line) : line[n] = " = "
MergedDeclarations ==
    LET at == Ascending({n \in 1..Len(generated) :
                  /\ generated[n] # <<>>
                  /\ generated[n][1] = "export type "
                  /\ \E p \in 1..Len(generated[n]) : generated[n][p] = " = "
                  /\ SubSeq(generated[n], 2, EqualsAt(generated[n]) - 1)
                        \notin {Chars_PluginId, Chars_ModelKey}})
    IN  [c \in 1..Len(at) |-> SubSeq(generated[at[c]], 2, EqualsAt(generated[at[c]]) - 1)]

\* C15: the master mapping has one entry per emitted model and no other; the
\* key of an entry, read as a string literal, is the model's own name, so the
\* keys are distinct, and its value is the name of the merged type the text
\* declares for that model.
C15_MasterMapping ==
    HasText =>
       LET lines == Block(Chars_BetterAuthFullSchema)
       IN  /\ Len(lines) = Len(MergedDeclarations)
           /\ Len(lines) = Len(ExpectedEntities)
           /\ \A n \in 1..Len(lines) :
                 /\ MappingKey(lines[n]) = ExpectedEntities[n]
                 /\ lines[n][2] = "\"" /\ lines[n][ColonAt(lines[n]) - 1] = "\""
                 /\ MappingValue(lines[n]) = MergedDeclarations[n]
                 /\ MergedAt(ExpectedEntities[n]) # {}
           /\ \A a, b \in 1..Len(lines) :
                 a # b => MappingKey(lines[a]) # MappingKey(lines[b])

\* The mapping has a model of the base and a model the plugin introduces,
\* and their names have separators.
C15_Witness ==
    /\ pc = "Succeeded"
    /\ MappedEntities = <<N_two_factor, N_rate_limit>>
    /\ Names(baseConfig) = <<N_two_factor>>

\* The scalar mapping table.
TypeTable ==
    ("boolean" :> "boolean") @@ ("date" :> "Date") @@ ("number" :> "number")
    @@ ("string" :> "string") @@ ("number[]" :> "number[]")
    @@ ("string[]" :> "string[]")
TargetType(t) == IF t \in DOMAIN TypeTable THEN TypeTable[t] ELSE "unknown"

\* The member C16 expects for the field e.
ExpectedMember(indent, e) ==
    <<indent>>
        \o (IF e.v.fieldName # Undefined THEN e.v.fieldName ELSE e.k)
        \o (IF e.v.required = "true" THEN <<>> ELSE <<"?">>)
        \o <<": ", TargetType(e.v.type)>>
ExpectedMembers(indent, flds) ==
    [n \in 1..Len(flds) |-> ExpectedMember(indent, flds[n])]

\* The member lines of a record type, the lines of sub-record keys left out.
MemberLines(name) == SelectSeq(Block(name), IsMember)

\* The new fields of the contributing plugins of m, in declaration order.
AllNewFields(m) ==
    LET cs == Ascending(Contributors(m))
    IN  Flatten([c \in 1..Len(cs) |-> NewFields(cs[c], m)])

\* C16: every member of a base fields type, of a plugin sub-record and of a
\* flat fields type is named by fieldName when the field has one and by the
\* field key otherwise, has a `?` exactly when `required` is not true, and
\* has the type the table gives, `unknown` for a type that is not in the
\* table; such a type does not make the run fail.
C16_Members ==
    /\ pc = "Failed" => LastCallThrew
    /\ HasText =>
          \A m \in ModelNames :
             LET P == pascal(m)
             IN  /\ Declares(BaseFieldsName(P)) =>
                       MemberLines(BaseFieldsName(P))
                          = ExpectedMembers("  ", FieldsIn(baseConfig, m))
                 /\ Declares(PluginFieldsName(P)) =>
                       MemberLines(PluginFieldsName(P))
                          = ExpectedMembers("    ", AllNewFields(m))
                 /\ Declares(FieldsName(P)) =>
                       MemberLines(FieldsName(P))
                          = ExpectedMembers("  ", AllNewFields(m))

\* A base field with a fieldName and a type that is not in the table, and a
\* plugin field whose `required` is not given.
C16_Witness ==
    /\ pc = "Succeeded"
    /\ Declares(BaseFieldsName(pascal(N_user)))
    /\ Declares(PluginFieldsName(pascal(N_user)))
    /\ \E e \in Range(FieldsIn(baseConfig, N_user)) :
          e.v.fieldName = F_uid /\ e.v.type = "json"
    /\ \E e \in Range(AllNewFields(N_user)) :
          e.v.required = "undefined" /\ e.v.type = "number[]"

\* The state of the run: Idle before the first call of getSchema, Running
\* until the script ends, then Succeeded or Failed.
Phase(at) ==
    IF at \in {"Idle", "Succeeded", "Failed"} THEN at ELSE "Running"

LoginSucceeded ==
    /\ Len(logins) = 1
    /\ logins[1] = [collection |-> "users", email |-> args.req.user.email,
                    password |-> "data.currentPassword", result |-> "user"]

\* What C18 requires of an update that is granted to a user with no admin role.
OwnAllowedFields ==
    /\ args.req.user.present
    /\ args.req.user.id.t = args.id.t /\ args.req.user.id.v = args.id.v
    /\ args.data.present
    /\ \A key \in args.data.keys :
          \/ key \in allowedFields
          \/ /\ key \in {"password", "currentPassword"}
             /\ {"password", "currentPassword"} \subseteq args.data.keys
             /\ LoginSucceeded

\* C18: for a user with no admin role the access function grants the update
\* only if the user is authenticated, the user's id is the id of the record,
\* data is given and every key of data is an allowed field, password and
\* currentPassword being allowed in addition only when both are given and the
\* login with the user's email and that current password succeeded; in every
\* other case, a login that throws included, the update is denied.
C18_OwnFieldsOnly ==
    (step = "Returned" /\ ~checkAdmin(args.req)) =>
        /\ granted \in {"granted", "denied"}
        /\ granted = "granted" => OwnAllowedFields
        /\ \A n \in 1..Len(logins) : logins[n].result # "user" => granted = "denied"

\* A password change that is granted after the login succeeded.
C18_Witness ==
    /\ step = "Returned"
    /\ granted = "granted"
    /\ ~checkAdmin(args.req)
    /\ allowedFields = {"name"}
    /\ args.data.keys = {"name", "password", "currentPassword"}
    /\ LoginSucceeded

\* C19: on a user table that starts empty, whatever the interleaving of the
\* requests, only the first row created was given adminRole by the hook:
\* every later row has the role its request supplied or, with none supplied,
\* defaultRole.
C19_OnlyFirstIsAdmin ==
    \A n \in 2..Len(userTable) :
        userTable[n].role =
            (IF userTable[n].supplied = "undefined" THEN "user" ELSE userTable[n].supplied)

\* The collections of `config` that set auth.disableLocalStrategy to true.
WithLocalStrategyDisabled ==
    {c \in Range(config.collections) :
        c.auth.t = "object" /\ c.auth.disableLocalStrategy = "true"}

\* C20: hasDisableLocalStrategy is true exactly when a collection of config
\* has auth.disableLocalStrategy set to true; then the slug and the config
\* returned are those of such a collection, and otherwise both are null; a
\* collection with `auth: true` does not make it true.
C20_DetectsDisabledLocalStrategy ==
    \A n \in 1..Len(detection) :
        /\ detection[n].hasDisableLocalStrategy = (WithLocalStrategyDisabled # {})
        /\ IF detection[n].hasDisableLocalStrategy
           THEN /\ detection[n].authCollectionConfig \in WithLocalStrategyDisabled
                /\ detection[n].authCollectionSlug = detection[n].authCollectionConfig.slug
           ELSE /\ detection[n].authCollectionSlug = "null"
                /\ detection[n].authCollectionConfig.slug = "null"

\* The elements of a come in b, in the same relative order.
KeepsOrderOf(a, b) ==
    /\ \A n \in 1..Len(a) : \E c \in 1..Len(b) : b[c] = a[n]
    /\ \A x, y \in 1..Len(a) :
          x < y => \A c, e \in 1..Len(b) : (b[c] = a[x] /\ b[e] = a[y]) => c < e

\* The names of the members of a record type, in the order of its lines.
MemberNameList(name) ==
    LET lines == MemberLines(name)
    IN  [n \in 1..Len(lines) |-> MemberName(lines[n])]

\* C21: the fields of the delta a plugin has for a model are in the relative
\* order of the snapshot getSchema returned for the plugin, and the members
\* of every record of the text (base fields, plugin sub-record, flat fields)
\* are in the order of the fields they come from.
C21_FieldOrder ==
    /\ \A a \in 1..Len(pluginAdds) : \A b \in 1..Len(pluginAdds[a].v) :
          \A n \in FirstOccurrences :
             plugins[n].id = pluginAdds[a].v[b].k =>
                KeepsOrderOf(Names(pluginAdds[a].v[b].v),
                             Names(FieldsIn(plugins[n].schema, pluginAdds[a].k)))
    /\ HasText =>
          \A m \in ModelNames :
             LET P == pascal(m)
             IN  /\ Declares(BaseFieldsName(P)) =>
                       MemberNameList(BaseFieldsName(P)) = Names(FieldsIn(baseConfig, m))
                 /\ Declares(PluginFieldsName(P)) =>
                       \A n \in Contributors(m) :
                          /\ MemberNameList(PluginFieldsName(P))
                                = Names(FieldsIn(pluginAdds, m)[1].v)
                          /\ KeepsOrderOf(MemberNameList(PluginFieldsName(P)),
                                          Names(FieldsIn(plugins[n].schema, m)))
                 /\ Declares(FieldsName(P)) =>
                       \A n \in Contributors(m) :
                          /\ MemberNameList(FieldsName(P))
                                = Names(FieldsIn(pluginAdds, m)[1].v)
                          /\ KeepsOrderOf(MemberNameList(FieldsName(P)),
                                          Names(FieldsIn(plugins[n].schema, m)))

\* The plugin lists `at`, `id`, `ok`, the base has `id`: the sub-record of
\* the plugin has `at` and then `ok`.
C21_Witness ==
    /\ pc = "Succeeded"
    /\ Names(FieldsIn(baseConfig, N_user)) = <<K_id>>
    /\ Names(FieldsIn(plugins[1].schema, N_user)) = <<K_at, K_id, K_ok>>
    /\ Declares(PluginFieldsName(pascal(N_user)))
    /\ MemberNameList(PluginFieldsName(pascal(N_user))) = <<K_at, K_ok>>

\* The delta entries of a delta table: (model, id, fields).
EntriesOf(table) ==
    UNION {{[model |-> table[a].k, id |-> table[a].v[b].k, fields |-> table[a].v[b].v] :
               b \in 1..Len(table[a].v)} : a \in 1..Len(table)}

\* What the base snapshot and the snapshot of the first plugin with this id
\* give, whatever the other plugins are.
OwnDelta(id, m) ==
    LET n == CHOOSE c \in FirstOccurrences : plugins[c].id = id
    IN  SelectSeq(FieldsIn(plugins[n].schema, m),
                  LAMBDA e : e.k \notin KeysOf(FieldsIn(baseConfig, m)))

\* C22: no step of a run changes the base snapshot once getSchema returned
\* it; the delta recorded for a plugin id is what the base snapshot and that
\* plugin's own snapshot give, whatever other plugins are in the list; and a
\* delta entry, once recorded, is neither changed nor removed.
C22_DeltaIsOwn ==
    [][/\ pc \notin {"Idle", "BaseCall"} => baseSchema' = baseSchema /\ baseSchema = baseConfig
       /\ EntriesOf(pluginAdds) \subseteq EntriesOf(pluginAdds')
       /\ \A e \in EntriesOf(pluginAdds') :
             /\ \E c \in FirstOccurrences : plugins[c].id = e.id
             /\ e.fields = OwnDelta(e.id, e.model)
      ]_vars

\* Two plugins with different ids recorded different deltas for `user`.
C22_Witness ==
    /\ pc = "Succeeded"
    /\ Len(plugins) = 2
    /\ plugins[1].id # plugins[2].id
    /\ \E x, y \in EntriesOf(pluginAdds) :
          /\ x.model = N_user /\ y.model = N_user
          /\ x.id = plugins[1].id /\ y.id = plugins[2].id
          /\ x.fields # y.fields

\* The names the text declares, in the order of their declarations.
IsDeclaration(line) == Len(line) > 2 /\ line[1] = "export type "
DeclaredName(line) ==
    LET stop == CHOOSE n \in 2..Len(line) :
                    /\ line[n] \in {" = {", " = "}
                    /\ \A c \in 2..(n - 1) : line[c] \notin {" = {", " = "}
    IN  SubSeq(line, 2, stop - 1)
DeclarationLines == {n \in 1..Len(generated) : IsDeclaration(generated[n])}
DeclaredNames ==
    LET at == Ascending(DeclarationLines)
    IN  [c \in 1..Len(at) |-> DeclaredName(generated[at[c]])]

\* The declarations of model m: its base fields type if the base gives it a
\* field, its plugin fields type or (one plugin, no base field) its flat fields
\* type if a plugin adds a field, then its merged type.
ExpectedDeclarations(m) ==
    LET P == pascal(m)
        ids == ExtIds(m)
    IN  (IF HasBase(m) THEN <<BaseFieldsName(P)>> ELSE <<>>)
        \o (IF ids = <<>> THEN <<>>
            ELSE IF HasBase(m) \/ Len(ids) > 1 THEN <<PluginFieldsName(P)>>
            ELSE <<FieldsName(P)>>)
        \o <<P>>

\* C23: the text starts with the header; its declarations are, model by
\* model in the order of the models, the base fields type (if any), the
\* plugin fields or flat fields type (if any) and the merged type, and after
\* the last model PluginId, BetterAuthFullSchema and ModelKey; so that no
\* declaration of a model stands between those of another.
C23_Layout ==
    HasText =>
        LET expected == ExpectedEntities
        IN  /\ IsPrefix(Header, generated)
            /\ \A n \in DeclarationLines : n > Len(Header)
            /\ DeclaredNames =
                  Flatten([n \in 1..Len(expected) |-> ExpectedDeclarations(expected[n])])
                  \o <<Chars_PluginId, Chars_BetterAuthFullSchema, Chars_ModelKey>>

\* `user` has a base field and a plugin's field, `jwks` only a plugin's field.
C23_Witness ==
    /\ pc = "Succeeded"
    /\ DeclaredNames =
          << BaseFieldsName(pascal(N_user)), PluginFieldsName(pascal(N_user)), pascal(N_user),
             FieldsName(pascal(N_jwks)), pascal(N_jwks),
             Chars_PluginId, Chars_BetterAuthFullSchema, Chars_ModelKey >>

\* C24: the generator does not fail on a model with no base field and no
\* contributing plugin, and the right-hand side of the merged type of every
\* emitted model is not empty: it has an intersection part or is an explicit
\* empty type.
C24_MergedTypeNotEmpty ==
    HasText =>
        \A n \in DeclarationLines :
            DeclaredName(generated[n]) \in {pascal(m) : m \in ModelNames} =>
                generated[n][Len(generated[n])] # " = "

\* C25: in every sequence of onInit and resetAuthInstance calls, between two
\* calls of createAuth that returned there is a reset; an onInit on a payload
\* that has the property betterAuth does not call createAuth and leaves the
\* property as it is; and no step replaces a property betterAuth a payload has.
C25_OneInstance ==
    [][/\ \A a, b \in 1..Len(lifecycle') :
             (a < b /\ lifecycle'[a].createAuth = "returned"
                    /\ lifecycle'[b].createAuth = "returned") =>
                 \E c \in (a + 1)..(b - 1) : lifecycle'[c].op = "reset"
       /\ \A p \in Payloads :
             betterAuth[p] # NoInstance =>
                /\ betterAuth'[p] = betterAuth[p]
                /\ (lifecycle'[Len(lifecycle')].payload = p =>
                       lifecycle'[Len(lifecycle')].createAuth = "none")
      ]_vars

\* createAuth returned, the instance was reused for the other payload, the
\* module's instance was reset, and onInit ran again on a payload that
\* already had the property.
C25_Witness ==
    /\ Len(lifecycle) = 4
    /\ lifecycle[1].createAuth = "returned"
    /\ lifecycle[2].op = "onInit" /\ lifecycle[2].payload # lifecycle[1].payload
    /\ lifecycle[2].after = lifecycle[1].after
    /\ lifecycle[3].op = "reset"
    /\ lifecycle[4].op = "onInit" /\ lifecycle[4].payload = lifecycle[1].payload
    /\ ~lifecycle[4].threw
    /\ authInstance = NoInstance
    /\ betterAuth[lifecycle[1].payload] = lifecycle[1].after

\* C26: when onInit(p) of the plugin made from some options returns on a
\* payload p that had no property betterAuth, p.betterAuth is the instance
\* that the createAuth of these options returned for p, whatever onInit calls
\* came before.
C26_AttachesOwnInstance ==
    \A n \in 1..Len(lifecycle) :
        LET e == lifecycle[n]
        IN  (e.op = "onInit" /\ ~e.threw /\ e.before = NoInstance) =>
               /\ e.after.by = e.options
               /\ e.after.payload = e.payload

\* The parts of the intersections the text declares as merged types, each
\* with the line that declares it.
RightHandSide(line) ==
    LET stop == CHOOSE n \in 2..Len(line) : line[n] = " = "
    IN  SubSeq(line, stop + 1, Len(line))
MergedLines ==
    {n \in DeclarationLines :
        /\ generated[n][Len(generated[n])] # " = {"
        /\ DeclaredName(generated[n]) \in {pascal(m) : m \in ModelNames}}
PartsAt(n) ==
    LET rhs == RightHandSide(generated[n])
        cuts == Ascending({c \in 1..Len(rhs) : rhs[c] = " & "} \cup {0, Len(rhs) + 1})
    IN  IF rhs = <<>> THEN {}
        ELSE {SubSeq(rhs, cuts[c] + 1, cuts[c + 1] - 1) : c \in 1..(Len(cuts) - 1)}

\* An indexed access `Name["id"]`: the name and the literal between the brackets.
IsIndexed(part) == "[" \in Range(part)
IndexedName(part) == SubSeq(part, 1, (CHOOSE n \in 1..Len(part) : part[n] = "[") - 1)
IndexedKey(part) ==
    SubSeq(part, (CHOOSE n \in 1..Len(part) : part[n] = "[") + 1, Len(part) - 1)

\* C27: every indexed-access part of a merged type names a plugin fields type
\* that the same text declares and that has the part's plugin id as a key;
\* the placeholder `never` is a part of no merged type.
C27_IndexedPartsResolve ==
    HasText =>
        \A n \in MergedLines :
            \A part \in PartsAt(n) :
                /\ part # <<"never">>
                /\ IsIndexed(part) =>
                      /\ part[Len(part)] = "]"
                      /\ \E m \in ModelNames : IndexedName(part) = PluginFieldsName(pascal(m))
                      /\ Declares(IndexedName(part))
                      /\ \E l \in Range(Block(IndexedName(part))) :
                            l = <<"  ">> \o IndexedKey(part) \o <<": {">>

\* `user` has two indexed parts and `jwks` is a single-plugin-only model, the
\* case in which needPluginMap does not hold with a plugin id present.
C27_Witness ==
    /\ pc = "Succeeded"
    /\ ~HasBase(N_user) /\ ~HasBase(N_jwks)
    /\ Cardinality(Contributors(N_user)) = 2
    /\ Cardinality(Contributors(N_jwks)) = 1
    /\ \E n \in MergedLines :
          /\ DeclaredName(generated[n]) = pascal(N_user)
          /\ PartsAt(n) = {PluginFieldsName(pascal(N_user)) \o <<"[">> \o JSONStringify(i) \o <<"]">> :
                              i \in {Id_admin, Id_jwt}}
    /\ Declares(FieldsName(pascal(N_jwks)))

\* C28: a text declares no type name twice: the names made with pascal for
\* two models differ from each other and from PluginId, BetterAuthFullSchema
\* and ModelKey, also when the names of the models differ only in a `-` or
\* `_` separator or in the case of the first letter of a segment.
C28_NoDuplicateDeclaration ==
    HasText =>
        \A a, b \in DeclarationLines :
            a # b => DeclaredName(generated[a]) # DeclaredName(generated[b])

\* C29: the members of one record type of the text (a base fields type, the
\* sub-record of one plugin, a flat fields type) have pairwise distinct
\* names, although a member is named by the fieldName of its field.
C29_DistinctMembers ==
    HasText =>
        \A name \in {BaseFieldsName(pascal(N_user)), PluginFieldsName(pascal(N_user)),
                     FieldsName(pascal(N_user))} :
            Declares(name) =>
                LET names == MemberNameList(name)
                IN  \A a, b \in 1..Len(names) : a # b => names[a] # names[b]

\* The descriptors of a list that have an id.
WithId(list) == SelectSeq(list, LAMBDA d : d.id # Undefined)

\* C30: a descriptor with no id is skipped: getSchema is never called with
\* it, `seen`, the delta table and the union PluginId have no entry for it,
\* and the run generates the text that a run on the list without the
\* descriptors with no id generates.
C30_NoIdSkipped ==
    /\ \A c \in 1..Len(calls) :
          \A n \in Range(calls[c].active) : plugins[n].id # Undefined
    /\ Undefined \notin Range(seen)
    /\ \A e \in EntriesOf(pluginAdds) : e.id # Undefined
    /\ HasText =>
          /\ UnionIds = WithoutRepeats([n \in 1..Len(WithId(plugins)) |-> WithId(plugins)[n].id])
          /\ \A r \in Range(earlier) :
                (r.pc = "Succeeded" /\ plugins = WithId(r.plugins)) =>
                    generated = r.generated

\* The first run had a descriptor with no id whose snapshot has a field the
\* base does not have, before a descriptor with an id; the second run had
\* the list without it.
C30_Witness ==
    /\ pc = "Succeeded"
    /\ earlier # <<>>
    /\ earlier[1].pc = "Succeeded"
    /\ Len(earlier[1].plugins) = 2
    /\ earlier[1].plugins[1].id = Undefined
    /\ earlier[1].plugins[2].id = Id_admin
    /\ Len(diff(baseConfig, earlier[1].plugins[1].schema)) = 1
    /\ Len(diff(baseConfig, earlier[1].plugins[2].schema)) = 1
    /\ plugins = WithId(earlier[1].plugins)
    /\ Len(plugins) = 1
    /\ generated = earlier[1].generated

=============================================================================
